---- MODULE Spec2Model ----
(***************************************************************************)
(* illusory: the geometry delta between two IllusoryElements (getDelta)    *)
(* and the transition protocol of illusory(from, to, options).             *)
(*                                                                         *)
(* JavaScript numbers are modelled as exact rationals extended with the    *)
(* IEEE-754 special values the arithmetic of getDelta can produce: signed  *)
(* zero, +Infinity, -Infinity and NaN.  Rounding of finite results is not  *)
(* modelled: every finite result is the exact quotient.                    *)
(* Mul, Div and Add bind their operands before use, so that each operand   *)
(* expression is evaluated once.                                           *)
(***************************************************************************)
EXTENDS Integers, Sequences, FiniteSets, TLC

(***************************************************************************)
(* Bounds of the model.                                                    *)
(***************************************************************************)
\* widths are 0, 50, ..., 50 * MaxDim and heights 0, 25, ..., 25 * MaxDim
MaxDim == 2
\* naturalToCloneScale ranges over k/2 for k in -MaxScale .. MaxScale
MaxScale == 2

(***************************************************************************)
(* JavaScript numbers.                                                     *)
(***************************************************************************)
RECURSIVE GCD(_, _)
GCD(a, b) == IF b = 0 THEN a ELSE GCD(b, a % b)

NaN == [k |-> "nan", s |-> 1, n |-> 0, d |-> 1]
Inf(s) == [k |-> "inf", s |-> s, n |-> 1, d |-> 1]
\* the finite number s * n / d (n >= 0, d > 0), in lowest terms
Fin(s, n, d) ==
  LET g == GCD(n, d)
  IN  [k |-> "fin", s |-> s, n |-> n \div g, d |-> d \div g]
Num(i) == IF i < 0 THEN Fin(-1, 0 - i, 1) ELSE Fin(1, i, 1)
Rat(p, q) == IF p < 0 THEN Fin(-1, 0 - p, q) ELSE Fin(1, p, q)

IsNaN(a) == a.k = "nan"
IsInf(a) == a.k = "inf"
IsFinite(a) == a.k = "fin"
IsZero(a) == a.k = "fin" /\ a.n = 0

Product(a, b) ==
  IF IsNaN(a) \/ IsNaN(b) THEN NaN
  ELSE IF (IsInf(a) /\ IsZero(b)) \/ (IsZero(a) /\ IsInf(b)) THEN NaN
  ELSE IF IsInf(a) \/ IsInf(b) THEN Inf(a.s * b.s)
  ELSE Fin(a.s * b.s, a.n * b.n, a.d * b.d)

\* a * b
Mul(a, b) == CHOOSE r \in {Product(u, v) : u \in {a}, v \in {b}} : TRUE

Quotient(a, b) ==
  IF IsNaN(a) \/ IsNaN(b) THEN NaN
  ELSE IF IsInf(a) /\ IsInf(b) THEN NaN
  ELSE IF IsZero(a) /\ IsZero(b) THEN NaN
  ELSE IF IsInf(a) THEN Inf(a.s * b.s)
  ELSE IF IsInf(b) THEN Fin(a.s * b.s, 0, 1)
  ELSE IF IsZero(b) THEN Inf(a.s * b.s)
  ELSE Fin(a.s * b.s, a.n * b.d, a.d * b.n)

\* a / b
Div(a, b) == CHOOSE r \in {Quotient(u, v) : u \in {a}, v \in {b}} : TRUE

Sum(a, b) ==
  IF IsNaN(a) \/ IsNaN(b) THEN NaN
  ELSE IF IsInf(a) /\ IsInf(b) THEN (IF a.s = b.s THEN a ELSE NaN)
  ELSE IF IsInf(a) THEN a
  ELSE IF IsInf(b) THEN b
  ELSE LET t == a.s * a.n * b.d + b.s * b.n * a.d
       IN  IF t = 0 THEN Fin(IF a.s = -1 /\ b.s = -1 THEN -1 ELSE 1, 0, 1)
           ELSE IF t < 0 THEN Fin(-1, 0 - t, a.d * b.d)
           ELSE Fin(1, t, a.d * b.d)

\* a + b
Add(a, b) == CHOOSE r \in {Sum(u, v) : u \in {a}, v \in {b}} : TRUE

Neg(a) == IF IsNaN(a) THEN NaN ELSE [a EXCEPT !.s = 0 - a.s]

\* a - b
Sub(a, b) == Add(a, Neg(b))

\* a === b
Eq(a, b) ==
  /\ ~IsNaN(a)
  /\ ~IsNaN(b)
  /\ (a = b \/ (IsZero(a) /\ IsZero(b)))

\* a > 0
Positive(a) == ~IsNaN(a) /\ ~IsZero(a) /\ a.s = 1

(***************************************************************************)
(* IllusoryElements as getDelta reads them: rect, the computed             *)
(* transform-origin style and naturalToCloneScale.                         *)
(***************************************************************************)
Widths == {50 * i : i \in 0..MaxDim}
Heights == {25 * i : i \in 0..MaxDim}
Lefts == {0, 200}
Tops == {0, 100}
OriginXs == {0, 50}
OriginYs == {0, 25}
Scales == {Rat(k, 2) : k \in (0 - MaxScale)..MaxScale}

Rect(l, t, w, h) ==
  [left |-> Num(l), top |-> Num(t), width |-> Num(w), height |-> Num(h)]

Rects == {Rect(l, t, w, h) : l \in Lefts, t \in Tops, w \in Widths, h \in Heights}

\* a computed transform-origin: two lengths in px
Px(v) == [value |-> Num(v), unit |-> "px"]
OriginStyles == {<<Px(x), Px(y)>> : x \in OriginXs, y \in OriginYs}

\* DEFAULT_OPTIONS.element.naturalToCloneScale
DefaultScale == Num(1)

IllusoryElement(rect, transformOrigin, naturalToCloneScale) ==
  [rect |-> rect, transformOrigin |-> transformOrigin,
   naturalToCloneScale |-> naturalToCloneScale]

Elements ==
  {IllusoryElement(r, o, n) : r \in Rects, o \in OriginStyles, n \in Scales}

\* elements with the default options and the initial transform-origin
DefaultElements ==
  {IllusoryElement(r, <<Px(0), Px(0)>>, DefaultScale) : r \in Rects}

\* the {x, y} offset of a computed transform-origin
parseTransformOrigin(originString) ==
  [x |-> originString[1].value, y |-> originString[2].value]

NonZeroRect(rect) == ~IsZero(rect.width) /\ ~IsZero(rect.height)

IDelta(x, y, scaleX, scaleY, inverseScaleX, inverseScaleY) ==
  [x |-> x, y |-> y, scaleX |-> scaleX, scaleY |-> scaleY,
   inverseScaleX |-> inverseScaleX, inverseScaleY |-> inverseScaleY]

NoDelta == IDelta(NaN, NaN, NaN, NaN, NaN, NaN)

(***************************************************************************)
(* getDelta.  The two axes run the same four computations; each is one     *)
(* operator, applied to the x and to the y operands.                       *)
(***************************************************************************)
\* relative change instead of ratio
scale_relative(naturalToCloneScale, endSize, startSize) ==
  Div(Mul(naturalToCloneScale, Sub(endSize, startSize)), startSize)

\* naturalToCloneScale * end.rect.width / start.rect.width
scale(naturalToCloneScale, endSize, startSize) ==
  Div(Mul(naturalToCloneScale, endSize), startSize)

\* the scale handed on instead of its reciprocal
inverseScale_same(s) == s

\* reciprocal of the scale's excess over 1
inverseScale_excess(s) == Div(Num(1), Sub(s, Num(1)))

\* 1 / scaleX
inverseScale(s) == Div(Num(1), s)

\* no correction for the transform-origin
originDisplacement_none(naturalToCloneScale, o, startSize, endSize, inv) ==
  Num(0)

\* the correction without the naturalToCloneScale factor
originDisplacement_unscaled(naturalToCloneScale, o, startSize, endSize, inv) ==
  Mul(Div(o, startSize), Mul(endSize, Sub(Num(1), inv)))

\* naturalToCloneScale * (origin.x / start.rect.width)
\*   * (end.rect.width * (1 - inverseScaleX))
originDisplacement(naturalToCloneScale, o, startSize, endSize, inv) ==
  Mul(Mul(naturalToCloneScale, Div(o, startSize)),
      Mul(endSize, Sub(Num(1), inv)))

\* the subtraction reversed
translation_reversed(endPos, startPos, displacement) ==
  Add(Sub(startPos, endPos), displacement)

\* end.rect.left - start.rect.left + originDisplacementX
translation(endPos, startPos, displacement) ==
  Add(Sub(endPos, startPos), displacement)

\* naturalToCloneScale read from end
getDelta_endScale(start, end) ==
  LET origin == parseTransformOrigin(start.transformOrigin)
      naturalToCloneScale == end.naturalToCloneScale
      scaleX == scale(naturalToCloneScale, end.rect.width, start.rect.width)
      scaleY == scale(naturalToCloneScale, end.rect.height, start.rect.height)
      inverseScaleX == inverseScale(scaleX)
      inverseScaleY == inverseScale(scaleY)
      originDisplacementX ==
        originDisplacement(naturalToCloneScale, origin.x, start.rect.width,
                           end.rect.width, inverseScaleX)
      originDisplacementY ==
        originDisplacement(naturalToCloneScale, origin.y, start.rect.height,
                           end.rect.height, inverseScaleY)
      x == translation(end.rect.left, start.rect.left, originDisplacementX)
      y == translation(end.rect.top, start.rect.top, originDisplacementY)
  IN  IDelta(x, y, scaleX, scaleY, inverseScaleX, inverseScaleY)

getDelta(start, end) ==
  LET origin == parseTransformOrigin(start.transformOrigin)
      naturalToCloneScale == start.naturalToCloneScale
      scaleX == scale(naturalToCloneScale, end.rect.width, start.rect.width)
      scaleY == scale(naturalToCloneScale, end.rect.height, start.rect.height)
      inverseScaleX == inverseScale(scaleX)
      inverseScaleY == inverseScale(scaleY)
      originDisplacementX ==
        originDisplacement(naturalToCloneScale, origin.x, start.rect.width,
                           end.rect.width, inverseScaleX)
      originDisplacementY ==
        originDisplacement(naturalToCloneScale, origin.y, start.rect.height,
                           end.rect.height, inverseScaleY)
      x == translation(end.rect.left, start.rect.left, originDisplacementX)
      y == translation(end.rect.top, start.rect.top, originDisplacementY)
  IN  IDelta(x, y, scaleX, scaleY, inverseScaleX, inverseScaleY)

(***************************************************************************)
(* State.                                                                  *)
(***************************************************************************)
VARIABLES
  start,      \* the element getDelta is called with as start (from)
  end,        \* the element getDelta is called with as end (to)
  delta,      \* the result of getDelta(start, end)
  other,      \* a second end element, with the rect of end
  otherDelta, \* the result of getDelta(start, other)
  pc,         \* "ready", "called", "calledOther"
  phase,      \* the step of illusory(from, to, options) last begun
  hooks,      \* the hooks the options define
  fired,      \* the hooks invoked so far, in order
  pending,    \* the hook whose promise is awaited, or "none"
  rejected,   \* a hook threw or its promise rejected
  attached,   \* for from and to: the clone is in the document
  hidden,     \* for from and to: the natural element is hidden
  flushed,    \* flushCSS() has run on both elements
  applied,    \* the delta styles are written on the clones
  completed,  \* the completion wait has ended
  canceled,   \* the wait ended by its timeout
  result      \* the returned promise: "pending", "resolved", "rejected"

dvars == <<start, end, delta, other, otherDelta, pc>>
ovars == <<phase, hooks, fired, pending, rejected, attached, hidden, flushed,
           applied, completed, canceled, result>>
vars == <<dvars, ovars>>

Both(b) == [e \in {"from", "to"} |-> b]

HookNames == {"beforeAttach", "beforeAnimate", "beforeDetach"}

\* the state of illusory before it is called
Idle ==
  /\ phase = "Init"
  /\ fired = <<>>
  /\ pending = "none"
  /\ rejected = FALSE
  /\ attached = Both(FALSE)
  /\ hidden = Both(FALSE)
  /\ flushed = FALSE
  /\ applied = FALSE
  /\ completed = FALSE
  /\ canceled = FALSE
  /\ result = "pending"

NotCalled ==
  /\ delta = NoDelta
  /\ other = end
  /\ otherDelta = NoDelta
  /\ pc = "ready"

(***************************************************************************)
(* getDelta called on every pair of elements.                              *)
(***************************************************************************)
Init ==
  /\ start \in Elements
  /\ end \in DefaultElements
  /\ NotCalled
  /\ hooks = {}
  /\ Idle

\* getDelta(start, end)
Call ==
  /\ pc = "ready"
  /\ delta' = getDelta(start, end)
  /\ pc' = "called"
  /\ UNCHANGED <<start, end, other, otherDelta, ovars>>

Next == Call

Spec == Init /\ [][Next]_vars

(***************************************************************************)
(* getDelta called twice with the same start and two end elements of the   *)
(* same rect.                                                              *)
(***************************************************************************)
InitOther ==
  /\ start \in {e \in Elements : e.rect.left = Num(0) /\ e.rect.top = Num(0)}
  /\ end \in {e \in DefaultElements :
                e.rect.left = Num(200) /\ e.rect.top = Num(100)}
  /\ NotCalled
  /\ hooks = {}
  /\ Idle

\* getDelta(start, other) for an element other with end's rect
CallOther ==
  /\ pc = "called"
  /\ \E o \in OriginStyles, n \in Scales :
       /\ other' = IllusoryElement(end.rect, o, n)
       /\ otherDelta' = getDelta(start, other')
  /\ pc' = "calledOther"
  /\ UNCHANGED <<start, end, delta, ovars>>

NextOther == Call \/ CallOther

SpecOther == InitOther /\ [][NextOther]_vars

(***************************************************************************)
(* illusory(from, to, options): one transition.  The steps, in order:      *)
(* Init, Normalize, Attach, BeforeAttachHook, Flush, BeforeAnimateHook,    *)
(* ApplyDelta, AwaitCompletion, BeforeDetachHook, Cleanup, Done.           *)
(***************************************************************************)
HookOrder == <<"beforeAttach", "beforeAnimate", "beforeDetach">>

InitIllusory ==
  /\ start = IllusoryElement(Rect(0, 0, 100, 50), <<Px(50), Px(25)>>,
                             DefaultScale)
  /\ end \in {e \in DefaultElements :
                /\ e.rect.left = Num(200)
                /\ e.rect.top = Num(100)
                /\ NonZeroRect(e.rect)}
  /\ NotCalled
  /\ hooks \in SUBSET HookNames
  /\ Idle

\* the step after prev may begin: no hook is awaited and none has failed
MayBegin(prev) == phase = prev /\ pending = "none" /\ ~rejected

\* from and to become IllusoryElements
Normalize ==
  /\ MayBegin("Init")
  /\ phase' = "Normalize"
  /\ UNCHANGED <<dvars, hooks, fired, pending, rejected, attached, hidden,
                 flushed, applied, completed, canceled, result>>

\* the natural elements stay visible
Attach_naturalsVisible ==
  /\ MayBegin("Normalize")
  /\ phase' = "Attach"
  /\ attached' = Both(TRUE)
  /\ UNCHANGED <<dvars, hooks, fired, pending, rejected, hidden, flushed,
                 applied, completed, canceled, result>>

\* both clones are inserted, both natural elements hidden
Attach ==
  /\ MayBegin("Normalize")
  /\ phase' = "Attach"
  /\ attached' = Both(TRUE)
  /\ hidden' = Both(TRUE)
  /\ UNCHANGED <<dvars, hooks, fired, pending, rejected, flushed, applied,
                 completed, canceled, result>>

\* the hook h, if the options define it, is invoked; it returns a value,
\* returns a promise that is then awaited, or throws
InvokeHook(h, prev, this) ==
  /\ MayBegin(prev)
  /\ phase' = this
  /\ IF h \in hooks
       THEN /\ fired' = Append(fired, h)
            /\ \E outcome \in {"value", "promise", "throws"} :
                 /\ pending' = IF outcome = "promise" THEN h ELSE "none"
                 /\ rejected' = (outcome = "throws")
       ELSE UNCHANGED <<fired, pending, rejected>>
  /\ UNCHANGED <<dvars, hooks, attached, hidden, flushed, applied, completed,
                 canceled, result>>

\* the awaited promise of a hook resolves
ResolveHook ==
  /\ pending # "none"
  /\ pending' = "none"
  /\ UNCHANGED <<dvars, phase, hooks, fired, rejected, attached, hidden,
                 flushed, applied, completed, canceled, result>>

\* the rejection reaches the caller at once
RejectHook_noCleanup ==
  /\ pending # "none"
  /\ pending' = "none"
  /\ rejected' = TRUE
  /\ phase' = "Done"
  /\ result' = "rejected"
  /\ UNCHANGED <<dvars, hooks, fired, attached, hidden, flushed, applied,
                 completed, canceled>>

\* the awaited promise of a hook rejects
RejectHook ==
  /\ pending # "none"
  /\ pending' = "none"
  /\ rejected' = TRUE
  /\ UNCHANGED <<dvars, phase, hooks, fired, attached, hidden, flushed,
                 applied, completed, canceled, result>>

BeforeAttachHook == InvokeHook("beforeAttach", "Attach", "BeforeAttachHook")

\* flushCSS() on both elements
Flush ==
  /\ MayBegin("BeforeAttachHook")
  /\ phase' = "Flush"
  /\ flushed' = TRUE
  /\ UNCHANGED <<dvars, hooks, fired, pending, rejected, attached, hidden,
                 applied, completed, canceled, result>>

BeforeAnimateHook == InvokeHook("beforeAnimate", "Flush", "BeforeAnimateHook")

\* the delta is computed and its styles written
ApplyDelta ==
  /\ MayBegin("BeforeAnimateHook")
  /\ phase' = "ApplyDelta"
  /\ delta' = getDelta(start, end)
  /\ pc' = "called"
  /\ applied' = TRUE
  /\ UNCHANGED <<start, end, other, otherDelta, hooks, fired, pending,
                 rejected, attached, hidden, flushed, completed, canceled,
                 result>>

\* the wait for the end of the transition begins
AwaitCompletion ==
  /\ MayBegin("ApplyDelta")
  /\ phase' = "AwaitCompletion"
  /\ UNCHANGED <<dvars, hooks, fired, pending, rejected, attached, hidden,
                 flushed, applied, completed, canceled, result>>

\* the tracked properties settle
TransitionEnd ==
  /\ MayBegin("AwaitCompletion")
  /\ ~completed
  /\ completed' = TRUE
  /\ canceled' = FALSE
  /\ UNCHANGED <<dvars, phase, hooks, fired, pending, rejected, attached,
                 hidden, flushed, applied, result>>

\* the timeout guard fires first
Timeout ==
  /\ MayBegin("AwaitCompletion")
  /\ ~completed
  /\ completed' = TRUE
  /\ canceled' = TRUE
  /\ UNCHANGED <<dvars, phase, hooks, fired, pending, rejected, attached,
                 hidden, flushed, applied, result>>

BeforeDetachHook ==
  /\ completed
  /\ InvokeHook("beforeDetach", "AwaitCompletion", "BeforeDetachHook")

\* both natural elements are shown again and both clones detached, after
\* BeforeDetachHook or after the failure of any hook
Cleanup ==
  /\ phase \notin {"Cleanup", "Done"}
  /\ pending = "none"
  /\ rejected \/ phase = "BeforeDetachHook"
  /\ phase' = "Cleanup"
  /\ hidden' = Both(FALSE)
  /\ attached' = Both(FALSE)
  /\ UNCHANGED <<dvars, hooks, fired, pending, rejected, flushed, applied,
                 completed, canceled, result>>

\* the returned promise settles
Done ==
  /\ phase = "Cleanup"
  /\ phase' = "Done"
  /\ result' = IF rejected THEN "rejected" ELSE "resolved"
  /\ UNCHANGED <<dvars, hooks, fired, pending, rejected, attached, hidden,
                 flushed, applied, completed, canceled>>

NextIllusory ==
  \/ Normalize
  \/ Attach
  \/ BeforeAttachHook
  \/ Flush
  \/ BeforeAnimateHook
  \/ ApplyDelta
  \/ AwaitCompletion
  \/ TransitionEnd
  \/ Timeout
  \/ BeforeDetachHook
  \/ ResolveHook
  \/ RejectHook
  \/ Cleanup
  \/ Done

SpecIllusory == InitIllusory /\ [][NextIllusory]_vars

\* the event loop runs every step that is ready, and every awaited promise
\* settles
FairIllusory == SpecIllusory /\ WF_vars(NextIllusory)

(***************************************************************************)
(* Properties of getDelta.                                                 *)
(***************************************************************************)
Called == pc = "called"

origin == parseTransformOrigin(start.transformOrigin)

NonDegenerate(rect) == NonZeroRect(rect)

\* start.rect.width * scaleX = end.rect.width, and likewise the height
ScalesOnto ==
  /\ Eq(Mul(start.rect.width, delta.scaleX), end.rect.width)
  /\ Eq(Mul(start.rect.height, delta.scaleY), end.rect.height)

\* start.rect.left + x + origin.x * (1 - scaleX) = end.rect.left
MovesOntoX ==
  Eq(Add(Add(start.rect.left, delta.x),
         Mul(origin.x, Sub(Num(1), delta.scaleX))),
     end.rect.left)

\* start.rect.top + y + origin.y * (1 - scaleY) = end.rect.top
MovesOntoY ==
  Eq(Add(Add(start.rect.top, delta.y),
         Mul(origin.y, Sub(Num(1), delta.scaleY))),
     end.rect.top)

\* C1 as stated: with naturalToCloneScale = 1 and a start rect of non-zero
\* width and height, the delta maps the start box exactly onto the end box,
\* for every end rect and every transform-origin.
C1_MapsOntoEveryEnd ==
  (Called /\ start.naturalToCloneScale = Num(1) /\ NonDegenerate(start.rect))
    => (ScalesOnto /\ MovesOntoX /\ MovesOntoY)

\* C1 amended: with naturalToCloneScale = 1 and a start rect of non-zero
\* width and height, the scales map the start size onto the end size for
\* every end rect, and the translation maps the start position onto the end
\* position on each axis where the end rect's size is not zero.
C1_MapsOntoNonDegenerateEnd ==
  (Called /\ start.naturalToCloneScale = Num(1) /\ NonDegenerate(start.rect))
    => /\ ScalesOnto
       /\ ~IsZero(end.rect.width) => MovesOntoX
       /\ ~IsZero(end.rect.height) => MovesOntoY

\* a call where the transform-origin correction moves the clone on both axes
C1_Witness ==
  /\ Called
  /\ start.naturalToCloneScale = Num(1)
  /\ NonDegenerate(start.rect)
  /\ NonDegenerate(end.rect)
  /\ ~Eq(delta.x, Sub(end.rect.left, start.rect.left))
  /\ ~Eq(delta.y, Sub(end.rect.top, start.rect.top))

\* C2: a start or end rect of width 0 gives scaleX = 1 and inverseScaleX = 1,
\* a height of 0 gives scaleY = 1 and inverseScaleY = 1.
C2_DegenerateClamped ==
  Called =>
    /\ (IsZero(start.rect.width) \/ IsZero(end.rect.width))
         => (Eq(delta.scaleX, Num(1)) /\ Eq(delta.inverseScaleX, Num(1)))
    /\ (IsZero(start.rect.height) \/ IsZero(end.rect.height))
         => (Eq(delta.scaleY, Num(1)) /\ Eq(delta.inverseScaleY, Num(1)))

AllPositive ==
  /\ Positive(start.rect.width)
  /\ Positive(start.rect.height)
  /\ Positive(end.rect.width)
  /\ Positive(end.rect.height)

InverseConsistent ==
  /\ Eq(Mul(delta.scaleX, delta.inverseScaleX), Num(1))
  /\ Eq(Mul(delta.scaleY, delta.inverseScaleY), Num(1))

\* C3 as stated: with all rect dimensions positive, scaleX * inverseScaleX = 1
\* and scaleY * inverseScaleY = 1 for every naturalToCloneScale.
C3_InverseForEveryScale == (Called /\ AllPositive) => InverseConsistent

\* C3 amended: with all rect dimensions positive and naturalToCloneScale
\* not zero, scaleX * inverseScaleX = 1 and scaleY * inverseScaleY = 1.
C3_InverseForNonZeroScale ==
  (Called /\ AllPositive /\ ~IsZero(start.naturalToCloneScale))
    => InverseConsistent

\* a call with a naturalToCloneScale other than 0 and 1 and scales other
\* than 1
C3_Witness ==
  /\ Called
  /\ AllPositive
  /\ start.naturalToCloneScale = Rat(-1, 2)
  /\ ~Eq(delta.scaleX, Num(1))
  /\ ~Eq(delta.scaleY, Num(1))
  /\ ~Eq(delta.scaleX, delta.scaleY)

ScalesPositive == Positive(delta.scaleX) /\ Positive(delta.scaleY)

\* C4 as stated: with non-degenerate start and end rects, scaleX and scaleY
\* are strictly positive for every naturalToCloneScale.
C4_PositiveForEveryScale ==
  (Called /\ NonDegenerate(start.rect) /\ NonDegenerate(end.rect))
    => ScalesPositive

\* C4 amended: with non-degenerate start and end rects and a strictly
\* positive naturalToCloneScale, scaleX and scaleY are strictly positive.
C4_PositiveForPositiveScale ==
  (Called /\ NonDegenerate(start.rect) /\ NonDegenerate(end.rect)
     /\ Positive(start.naturalToCloneScale))
    => ScalesPositive

\* a call that shrinks one axis more than the other, with a
\* naturalToCloneScale below 1
C4_Witness ==
  /\ Called
  /\ NonDegenerate(start.rect)
  /\ NonDegenerate(end.rect)
  /\ start.naturalToCloneScale = Rat(1, 2)
  /\ Positive(Sub(Num(1), delta.scaleX))
  /\ Positive(Sub(delta.scaleY, delta.scaleX))

AllFinite ==
  /\ IsFinite(delta.x)
  /\ IsFinite(delta.y)
  /\ IsFinite(delta.scaleX)
  /\ IsFinite(delta.scaleY)
  /\ IsFinite(delta.inverseScaleX)
  /\ IsFinite(delta.inverseScaleY)

\* C5 as stated: with non-degenerate start and end rects (and finite
\* coordinates and origin), all six fields of the delta are finite.
C5_FiniteForEveryScale ==
  (Called /\ NonDegenerate(start.rect) /\ NonDegenerate(end.rect))
    => AllFinite

\* C5 amended: with non-degenerate start and end rects and a
\* naturalToCloneScale that is not zero, no division of getDelta has a zero
\* divisor and all six fields of the delta are finite.
C5_FiniteForNonZeroScale ==
  (Called /\ NonDegenerate(start.rect) /\ NonDegenerate(end.rect)
     /\ ~IsZero(start.naturalToCloneScale))
    => AllFinite

\* a call with a negative naturalToCloneScale and an off-corner origin
C5_Witness ==
  /\ Called
  /\ NonDegenerate(start.rect)
  /\ NonDegenerate(end.rect)
  /\ start.naturalToCloneScale = Num(-1)
  /\ ~IsZero(origin.x)
  /\ ~IsZero(origin.y)

C6_Start == IllusoryElement(Rect(0, 0, 100, 50), <<Px(50), Px(25)>>, Num(1))
C6_EndRect == Rect(200, 100, 50, 25)

\* C6: start {0, 0, 100, 50}, end {200, 100, 50, 25}, origin (50, 25) and
\* naturalToCloneScale 1 give scaleX = scaleY = 0.5, inverseScaleX =
\* inverseScaleY = 2, x = 175 and y = 87.5.
C6_Scenario ==
  (Called /\ start = C6_Start /\ end.rect = C6_EndRect)
    => delta = IDelta(Num(175), Rat(175, 2), Rat(1, 2), Rat(1, 2),
                      Num(2), Num(2))

\* the scenario's call has returned
C6_Witness == Called /\ start = C6_Start /\ end.rect = C6_EndRect

\* the computation of the specification's algorithm, per axis
RefScale(n, endSize, startSize) == Div(Mul(n, endSize), startSize)
RefInverse(s) == Div(Num(1), s)
RefTranslation(n, o, endPos, startPos, endSize, startSize) ==
  Add(Sub(endPos, startPos),
      Mul(Mul(n, Div(o, startSize)),
          Mul(endSize,
              Sub(Num(1), RefInverse(RefScale(n, endSize, startSize))))))

RefDelta ==
  LET n == start.naturalToCloneScale
      s == start.rect
      e == end.rect
  IN  IDelta(RefTranslation(n, origin.x, e.left, s.left, e.width, s.width),
             RefTranslation(n, origin.y, e.top, s.top, e.height, s.height),
             RefScale(n, e.width, s.width),
             RefScale(n, e.height, s.height),
             RefInverse(RefScale(n, e.width, s.width)),
             RefInverse(RefScale(n, e.height, s.height)))

\* C9: for every start rect of non-zero width and height, the result of
\* getDelta is the result of the specification's algorithm, field by field.
C9_EqualsReference == (Called /\ NonDegenerate(start.rect)) => delta = RefDelta

\* a call where naturalToCloneScale and the origin both enter the translation
C9_Witness ==
  /\ Called
  /\ NonDegenerate(start.rect)
  /\ NonDegenerate(end.rect)
  /\ start.naturalToCloneScale = Rat(1, 2)
  /\ ~IsZero(origin.x)
  /\ ~IsZero(origin.y)
  /\ ~Eq(delta.scaleX, Num(1))
  /\ ~Eq(delta.scaleY, Num(1))

\* C10: two calls with the same start and end elements of equal rects return
\* the same delta, whatever the transform-origin and naturalToCloneScale of
\* the end elements.
C10_EndOnlyThroughRect ==
  (pc = "calledOther" /\ other.rect = end.rect) => otherDelta = delta

\* the second end element differs from the first in both styles, and the
\* delta depends on the start's origin and scale
C10_Witness ==
  /\ pc = "calledOther"
  /\ other.rect = end.rect
  /\ other.transformOrigin # end.transformOrigin
  /\ other.naturalToCloneScale # end.naturalToCloneScale
  /\ other.naturalToCloneScale # start.naturalToCloneScale
  /\ NonDegenerate(start.rect)
  /\ NonDegenerate(end.rect)
  /\ IsFinite(delta.x)
  /\ ~IsZero(origin.x)

(***************************************************************************)
(* Properties of illusory(from, to, options).                              *)
(***************************************************************************)
Rank(h) == CHOOSE i \in 1..Len(HookOrder) : HookOrder[i] = h

\* hooks fire in the order of HookOrder, each at most once
FiredInOrder ==
  \A i, j \in 1..Len(fired) : i < j => Rank(fired[i]) < Rank(fired[j])

DefinedHook(h) == h \in hooks

\* a transition that ends without failure has fired every defined hook
FiredAllWhenResolved ==
  result = "resolved" => fired = SelectSeq(HookOrder, DefinedHook)

Fires(h) == fired' = Append(fired, h)

\* beforeAnimate fires with both clones attached and both natural elements
\* hidden, before the delta styles are written
BeforeAnimateInPlace ==
  Fires("beforeAnimate")
    => (attached = Both(TRUE) /\ hidden = Both(TRUE) /\ ~applied /\ ~applied')

\* beforeDetach fires after the completion wait, with both clones attached
BeforeDetachInPlace ==
  Fires("beforeDetach")
    => (completed /\ attached = Both(TRUE) /\ attached' = Both(TRUE))

\* while the promise of a hook is awaited the only step is its settling,
\* and a settling begins no step
HookAwaited ==
  pending # "none"
    => /\ pending' = "none"
       /\ UNCHANGED <<phase, fired, attached, hidden, flushed, applied,
                      completed, delta>>

\* C7: the hooks fire in the order beforeAttach, beforeAnimate, beforeDetach,
\* each at most once; beforeAnimate fires after both clones are attached and
\* both natural elements hidden and before the delta styles are applied;
\* beforeDetach fires after the completion wait and before a clone is
\* removed; while a hook's promise is pending no next step begins.
C7_HookSequence ==
  /\ [](FiredInOrder /\ FiredAllWhenResolved)
  /\ [][BeforeAnimateInPlace /\ BeforeDetachInPlace /\ HookAwaited]_vars

\* a transition that fired all three hooks and resolved
C7_Witness ==
  /\ result = "resolved"
  /\ fired = HookOrder
  /\ applied
  /\ completed

SomeAttached == \E e \in DOMAIN attached : attached[e]

CleanedUp == attached = Both(FALSE) /\ hidden = Both(FALSE)

====
